---- MODULE Spec2Model ----
(***************************************************************************)
(* A model of MoodTracker (src/app.py): the Streamlit script main() and    *)
(* the analytics functions it calls over the rows of the shared sheet.     *)
(*                                                                         *)
(* Time is counted in ticks, TicksPerDay to a day.  A sheet row holds its  *)
(* Date as a calendar day number (the text str(date_val) of the source);   *)
(* pd.to_datetime turns it into the instant of that day's midnight.        *)
(* Day 0 is a Monday.                                                      *)
(*                                                                         *)
(* A mean is kept as the pair [sum, count] that pandas divides; count = 0  *)
(* is the NaN that the mean of an empty column is.  Where the source       *)
(* compares a difference of two means with a threshold, the model computes *)
(* the comparison as IEEE-754 binary64 arithmetic does (see F64SubGE2).    *)
(*                                                                         *)
(* DataFrame.sort_values is called with its default kind="quicksort",      *)
(* which is not a stable sort: rows with equal keys come out in an order   *)
(* the numpy build decides.  The model takes every order of equal keys as  *)
(* a possible outcome (sort_values).    nlargest / nsmallest order their    *)
(* selection with a stable mergesort when n < len, and fall back on        *)
(* sort_values when n >= len.                                              *)
(***************************************************************************)
EXTENDS Integers, Sequences, FiniteSets, TLC

VARIABLES sheet, session, now, view

vars == <<sheet, session, now, view>>

----------------------------------------------------------------------------
(* Bounds of the model *)

TicksPerDay == 2
MaxRows == 3
MaxTicks == 2
StartDay == 42

(* Program constants *)

WeekDays == 7
TwoWeeksDays == 14
MedWindowDays == 30
MinRecords == 7
MinDayGroups == 3
TrendMinRecords == 14
TrendN == 7
WarnN == 5
WarnThreshold == 12
MinTagStats == 2
MinTagCount == 3
MaxScore == 20

Users == {"ann@x", "bob@x"}
NoneEmail == "None"
NoSession == "no-session"

SEP == ", "
positive_tags == {"exercise", "relax", "friends"}
negative_tags == {"bad_sleep", "work_stress"}
TagVocabulary == positive_tags \cup negative_tags

(* The position of a label in the order of Python's str comparison (by code
   point of the label's leading emoji), which is the order groupby('Tags')
   puts its groups in. *)
TagRank(t) ==
  CASE t = "relax" -> 2
    [] t = "exercise" -> 3
    [] t = "bad_sleep" -> 7
    [] t = "work_stress" -> 10
    [] t = "friends" -> 11
    [] OTHER -> 0

Columns == {"User_Email", "Date", "Score", "Tags", "Note", "Gratitude", "Medication"}

----------------------------------------------------------------------------
(* Generic helpers *)

Min(S) == CHOOSE x \in S : \A y \in S : x <= y
Range(s) == {s[i] : i \in 1..Len(s)}

RECURSIVE SumSeq(_)
SumSeq(s) == IF s = <<>> THEN 0 ELSE Head(s) + SumSeq(Tail(s))

RECURSIVE Pow2(_)
Pow2(k) == IF k <= 0 THEN 1 ELSE 2 * Pow2(k - 1)

RECURSIVE Pow2Mod(_, _)
Pow2Mod(k, m) == IF k <= 0 THEN 1 % m ELSE (2 * Pow2Mod(k - 1, m)) % m

Take(s, n) == SubSeq(s, 1, IF n < Len(s) THEN n ELSE Len(s))

----------------------------------------------------------------------------
(* Means and binary64 arithmetic *)

NaN == [sum |-> 0, count |-> 0]
IsNaN(m) == m.count = 0

(* Series.mean(): the sum of the (integer) scores divided by their number;
   NaN for an empty selection. *)
Mean(scores) == [sum |-> SumSeq(scores), count |-> Len(scores)]

(* Exact comparison of two defined means.  Division is correctly rounded and
   rounding is monotone, and two different quotients of such small integers
   are different doubles, so the doubles compare as the quotients do. *)
MeanLT(a, b) == a.sum * b.count < b.sum * a.count
MeanEQ(a, b) == a.sum * b.count = b.sum * a.count
MeanGEInt(a, k) == a.sum >= k * a.count

(* The binary exponent E of a positive quotient s/c: 2^E <= s/c < 2^(E+1). *)
RECURSIVE ExpUp(_, _, _)
ExpUp(s, c, e) == IF c * Pow2(e + 1) <= s THEN ExpUp(s, c, e + 1) ELSE e
RECURSIVE ExpDown(_, _, _)
ExpDown(s, c, k) == IF s * Pow2(k) >= c THEN 0 - k ELSE ExpDown(s, c, k + 1)
F64Exp(s, c) == IF s >= c THEN ExpUp(s, c, 0) ELSE ExpDown(s, c, 1)

(* The double nearest s/c is s/c + n / (c * 2^(52-E)): n is the numerator of
   the rounding error of the 53-bit significand, found from the remainder of
   s * 2^(52-E) by c (round to nearest, ties to even). *)
F64ErrNum(s, c) ==
  IF s = 0 THEN 0
  ELSE LET k == 52 - F64Exp(s, c)
           rr == (s * Pow2Mod(k, 2 * c)) % (2 * c)
           odd == rr >= c
           r == rr % c
           up == (2 * r > c) \/ (2 * r = c /\ odd)
       IN IF up THEN c - r ELSE 0 - r

(* fl(fl(a) - fl(b)) >= 2.0 for two defined means a, b, as binary64 computes
   it.  When the exact difference is not 2 the rounding errors (below 2^-47)
   cannot change the comparison.  When it is exactly 2, the difference of the
   two doubles is 2 + d with d the difference of their rounding errors, and
   it rounds to 2.0 or more iff d >= -2^-53. *)
F64SubGE2(a, b) ==
  LET d == a.sum * b.count - b.sum * a.count - 2 * a.count * b.count
  IN IF d # 0 THEN d > 0
     ELSE LET E1 == F64Exp(a.sum, a.count)
              n1 == F64ErrNum(a.sum, a.count)
              E2 == IF b.sum = 0 THEN 0 ELSE F64Exp(b.sum, b.count)
              n2 == F64ErrNum(b.sum, b.count)
              K == IF E2 + 1 < 0 THEN 0 - (E2 + 1) ELSE 0
          IN n1 * b.count * Pow2(E1 + 1 + K) - n2 * a.count * Pow2(E2 + 1 + K)
               >= 0 - a.count * b.count * Pow2(K)

----------------------------------------------------------------------------
(* Sorting *)

(* Every order in which a sort that is not stable may leave the positions
   S of keys: ascending keys, equal keys in any order. *)
RECURSIVE SortRec(_, _)
SortRec(keys, S) ==
  IF S = {} THEN {<<>>}
  ELSE LET m == Min({keys[i] : i \in S})
       IN UNION {{<<i>> \o rest : rest \in SortRec(keys, S \ {i})} :
                 i \in {j \in S : keys[j] = m}}

(* The one order a stable sort gives: equal keys stay in position order. *)
RECURSIVE StableRec(_, _)
StableRec(keys, S) ==
  IF S = {} THEN <<>>
  ELSE LET m == Min({keys[i] : i \in S})
           i == Min({j \in S : keys[j] = m})
       IN <<i>> \o StableRec(keys, S \ {i})

StableArgsort(keys) == StableRec(keys, 1..Len(keys))

(* DataFrame.sort_values(by=...) with the default kind="quicksort": the
   possible permutations of the positions. *)
sort_values(keys) == SortRec(keys, 1..Len(keys))

Negated(keys) == [i \in 1..Len(keys) |-> 0 - keys[i]]
Permute(df, p) == [i \in 1..Len(p) |-> df[p[i]]]
DateKeys(df) == [i \in 1..Len(df) |-> df[i].Date]
Scores(df) == [i \in 1..Len(df) |-> df[i].Score]
Idx(df) == {df[i].idx : i \in 1..Len(df)}

----------------------------------------------------------------------------
(* analyze_user_data *)

timedelta(days) == days * TicksPerDay
to_datetime(day) == day * TicksPerDay

(* The rows of one user, Date parsed, each with its position in the sheet
   (the DataFrame index), in sheet order. *)
UserRows(raw, user_email) ==
  LET I == SelectSeq([i \in 1..Len(raw) |-> i],
                     LAMBDA i : raw[i].User_Email = user_email)
  IN [k \in 1..Len(I) |->
        [idx |-> I[k], Date |-> to_datetime(raw[I[k]].Date),
         Score |-> raw[I[k]].Score, Tags |-> raw[I[k]].Tags,
         Medication |-> raw[I[k]].Medication]]

(* The frames analyze_user_data may return: the user's rows sorted by Date. *)
analyze_user_data(raw, user_email) ==
  LET df == UserRows(raw, user_email)
  IN IF df = <<>> THEN {df}
     ELSE {Permute(df, p) : p \in sort_values(DateKeys(df))}

----------------------------------------------------------------------------
(* get_weekly_comparison *)

None == [sum |-> 0 - 1, count |-> 0 - 1]

(* A window closed at its lower end. *)
InCurrWindowClosed(date, today) ==
  date >= today - timedelta(WeekDays) /\ date <= today

InCurrWindow(date, today) ==
  date > today - timedelta(WeekDays) /\ date <= today
InLastWindow(date, today) ==
  date > today - timedelta(TwoWeeksDays) /\ date <= today - timedelta(WeekDays)

curr_df(df, today) == SelectSeq(df, LAMBDA r : InCurrWindow(r.Date, today))
last_df(df, today) == SelectSeq(df, LAMBDA r : InLastWindow(r.Date, today))

get_weekly_comparison(df, today) ==
  IF df = <<>> THEN <<None, None>>
  ELSE <<Mean(Scores(curr_df(df, today))), Mean(Scores(last_df(df, today)))>>

(* curr - last in floating point: NaN as soon as one operand is NaN. *)
F64Sub(a, b) ==
  IF IsNaN(a) \/ IsNaN(b) THEN [nan |-> TRUE, minuend |-> NaN, subtrahend |-> NaN]
  ELSE [nan |-> FALSE, minuend |-> a, subtrahend |-> b]

(* "Instant Stats" of the Check-in tab. *)
NoMetric == [shown |-> FALSE, curr |-> None, last |-> None,
             delta |-> F64Sub(NaN, NaN), curr_idx |-> {}, last_idx |-> {}]

InstantStats(df, today) ==
  IF df = <<>> THEN NoMetric
  ELSE LET cl == get_weekly_comparison(df, today)
       IN IF cl[1] # None /\ cl[2] # None
          THEN [shown |-> TRUE, curr |-> cl[1], last |-> cl[2],
                delta |-> F64Sub(cl[1], cl[2]),
                curr_idx |-> Idx(curr_df(df, today)),
                last_idx |-> Idx(last_df(df, today))]
          ELSE NoMetric

----------------------------------------------------------------------------
(* get_tag_correlations *)

(* ", ".join(tags): the cell of the Tags column, a text made of the labels
   with the separator between them. *)
RECURSIVE Join(_)
Join(tags) ==
  IF tags = <<>> THEN <<>>
  ELSE IF Len(tags) = 1 THEN <<tags[1]>>
  ELSE <<tags[1], SEP>> \o Join(Tail(tags))

(* str.split(', '): the pieces of the text between separators (one empty
   piece for an empty text). *)
RECURSIVE SplitRec(_, _)
SplitRec(rest, cur) ==
  IF rest = <<>> THEN <<cur>>
  ELSE IF Head(rest) = SEP THEN <<cur>> \o SplitRec(Tail(rest), <<>>)
  ELSE SplitRec(Tail(rest), Append(cur, Head(rest)))

Split(cell) == SplitRec(cell, <<>>)

(* A mutant: only the first label of each row's list is kept. *)
RECURSIVE ExplodeFirst(_)
ExplodeFirst(tag_df) ==
  IF tag_df = <<>> THEN <<>>
  ELSE LET r == Head(tag_df)
           L == Split(r.Tags)
       IN <<[Tags |-> L[1], Score |-> r.Score]>> \o ExplodeFirst(Tail(tag_df))

(* explode('Tags'): one (tag, score) row for each piece of each row's list. *)
RECURSIVE Explode(_)
Explode(tag_df) ==
  IF tag_df = <<>> THEN <<>>
  ELSE LET r == Head(tag_df)
           L == Split(r.Tags)
       IN [i \in 1..Len(L) |-> [Tags |-> L[i], Score |-> r.Score]]
            \o Explode(Tail(tag_df))

PieceRank(piece) == IF Len(piece) = 1 THEN TagRank(piece[1]) ELSE 0

(* The group keys in the order groupby puts them in (sorted keys). *)
RECURSIVE GroupKeys(_)
GroupKeys(S) ==
  IF S = {} THEN <<>>
  ELSE LET t == CHOOSE x \in S : \A y \in S : PieceRank(x) <= PieceRank(y)
       IN <<t>> \o GroupKeys(S \ {t})

(* groupby('Tags')['Score'].agg(['mean', 'count']).reset_index() *)
TagGroups(pairs) ==
  LET keys == GroupKeys({pairs[i].Tags : i \in 1..Len(pairs)})
  IN [k \in 1..Len(keys) |->
        LET sc == Scores(SelectSeq(pairs, LAMBDA q : q.Tags = keys[k]))
        IN [Tags |-> keys[k], mean |-> Mean(sc), count |-> Len(sc)]]

(* Sort keys for "by mean, descending": the number of rows with a larger
   mean. *)
MeanDescKeys(stats) ==
  [i \in 1..Len(stats) |->
     Cardinality({j \in 1..Len(stats) : MeanLT(stats[i].mean, stats[j].mean)})]

(* The frames get_tag_correlations may return. *)
get_tag_correlations(df) ==
  LET tag_df == Explode(SelectSeq(df, LAMBDA r : r.Tags # <<>>))
  IN IF tag_df = <<>> THEN {<<>>}
     ELSE LET stats == TagGroups(tag_df)
          IN {Permute(stats, p) : p \in sort_values(MeanDescKeys(stats))}

----------------------------------------------------------------------------
(* nlargest / nsmallest on the Date column *)

(* n < len: the n rows with the largest dates, latest first, equal dates in
   frame order (keep='first', ordered by a mergesort). *)
NLargestFast(df, n) ==
  Take(Permute(df, StableArgsort(Negated(DateKeys(df)))), n)
NSmallestFast(df, n) ==
  Take(Permute(df, StableArgsort(DateKeys(df))), n)

(* n >= len: sort_values(ascending=False).head(n). *)
nlargest(df, n) ==
  IF n >= Len(df)
  THEN {Take(Permute(df, p), n) : p \in sort_values(Negated(DateKeys(df)))}
  ELSE {NLargestFast(df, n)}

nsmallest(df, n) ==
  IF n >= Len(df)
  THEN {Take(Permute(df, p), n) : p \in sort_values(DateKeys(df))}
  ELSE {NSmallestFast(df, n)}

----------------------------------------------------------------------------
(* get_pattern_insights *)

DayNames == <<"Monday", "Tuesday", "Wednesday", "Thursday", "Friday",
              "Saturday", "Sunday">>
(* The same names in the order groupby('DayName') puts its groups in. *)
DayNamesSorted == <<"Friday", "Monday", "Saturday", "Sunday", "Thursday",
                    "Tuesday", "Wednesday">>

day_name(date) == DayNames[((date \div TicksPerDay) % 7) + 1]

(* groupby('DayName')['Score'].agg(['mean', 'count']).reset_index() *)
day_stats(df) ==
  LET present == SelectSeq(DayNamesSorted,
                   LAMBDA d : \E i \in 1..Len(df) : day_name(df[i].Date) = d)
  IN [k \in 1..Len(present) |->
        [DayName |-> present[k],
         mean |-> Mean(Scores(SelectSeq(df,
                    LAMBDA r : day_name(r.Date) = present[k])))]]

(* idxmin / idxmax: the first row holding the least / greatest mean. *)
idxmin(stats) ==
  Min({i \in 1..Len(stats) :
         \A j \in 1..Len(stats) : ~MeanLT(stats[j].mean, stats[i].mean)})
idxmax(stats) ==
  Min({i \in 1..Len(stats) :
         \A j \in 1..Len(stats) : ~MeanLT(stats[i].mean, stats[j].mean)})

(* 1. Day of week patterns *)
DayPattern(df) ==
  LET ds == day_stats(df)
  IN IF Len(ds) >= MinDayGroups
     THEN LET best_day == ds[idxmin(ds)]
              worst_day == ds[idxmax(ds)]
          IN IF F64SubGE2(worst_day.mean, best_day.mean)
             THEN <<[type |-> "day_pattern",
                     worst |-> worst_day.DayName, worst_mean |-> worst_day.mean,
                     best |-> best_day.DayName, best_mean |-> best_day.mean]>>
             ELSE <<>>
     ELSE <<>>

(* abs(a - b) >= 2 in floating point; fl(a - b) = -fl(b - a). *)
AbsDiffGE2(a, b) == IF MeanLT(a, b) THEN F64SubGE2(b, a) ELSE F64SubGE2(a, b)

(* 2. Recent trend; top14 is the outcome of df.nlargest(14, 'Date'). *)
Recent7(df) == NLargestFast(df, TrendN)
Prev7(top14) == NSmallestFast(top14, TrendN)

Trend(df, top14) ==
  IF Len(df) >= TrendMinRecords
  THEN LET recent_7 == Mean(Scores(Recent7(df)))
           prev_7 == Mean(Scores(Prev7(top14)))
       IN IF AbsDiffGE2(recent_7, prev_7)
          THEN <<[type |-> "trend",
                  dir |-> IF MeanLT(prev_7, recent_7) THEN "rising" ELSE "improving",
                  recent |-> recent_7, prev |-> prev_7]>>
          ELSE <<>>
  ELSE <<>>

(* A mutant: the five oldest records instead of the five most recent. *)
Oldest5(df) == NSmallestFast(df, WarnN)

(* 3. Consecutive high scores warning *)
Recent5(df) == NLargestFast(df, WarnN)

Warning(df) ==
  LET recent_5 == Recent5(df)
  IN IF Len(recent_5) = WarnN /\ MeanGEInt(Mean(Scores(recent_5)), WarnThreshold)
     THEN <<[type |-> "warning", mean |-> Mean(Scores(recent_5))]>>
     ELSE <<>>

(* 4. Tag-based insights; tag_stats is the outcome of get_tag_correlations. *)
IsPositive(tag) == \E t \in positive_tags : tag = <<t>>

TagInsight(tag_stats) ==
  IF "Tags" \in Columns /\ tag_stats # <<>> /\ Len(tag_stats) >= MinTagStats
  THEN LET positive_tag_stats == SelectSeq(tag_stats, LAMBDA r : IsPositive(r.Tags))
       IN IF positive_tag_stats # <<>>
          THEN LET best_tag == positive_tag_stats[Len(positive_tag_stats)]
               IN IF best_tag.count >= MinTagCount
                  THEN <<[type |-> "tag_insight", tag |-> best_tag.Tags,
                          count |-> best_tag.count, mean |-> best_tag.mean]>>
                  ELSE <<>>
          ELSE <<>>
  ELSE <<>>

(* A mutant: the rules run from five records on. *)
TooFewFive(df) == df = <<>> \/ Len(df) < WarnN

TooFew(df) == df = <<>> \/ Len(df) < MinRecords

(* The list get_pattern_insights returns, given the outcomes of the two
   sorts inside it that are not stable. *)
get_pattern_insights(df, tag_stats, top14) ==
  IF TooFew(df) THEN <<>>
  ELSE DayPattern(df) \o Trend(df, top14) \o Warning(df) \o TagInsight(tag_stats)

----------------------------------------------------------------------------
(* Medication adherence (Insights tab, section 3) *)

NoMed(status) ==
  [status |-> status, total_days |-> 0, days_taken |-> 0, missed_days |-> 0,
   adherence_rate |-> NaN, window_idx |-> {},
   corr |-> FALSE, avg_score_taken |-> NaN, avg_score_missed |-> NaN,
   score_diff |-> F64Sub(NaN, NaN)]

InMedWindow(date, today) == date > today - timedelta(MedWindowDays)

CountMed(med_df, value) ==
  Len(SelectSeq(med_df, LAMBDA r : r.Medication = value))

(* missed_days = total_days - days_taken *)
MissedDays(total_days, days_taken) == total_days - days_taken

(* A mutant: the difference taken the other way round. *)
ScoreDiffSwapped(avg_score_missed, avg_score_taken) ==
  F64Sub(avg_score_taken, avg_score_missed)

(* score_diff = avg_score_missed - avg_score_taken *)
ScoreDiff(avg_score_missed, avg_score_taken) ==
  F64Sub(avg_score_missed, avg_score_taken)

Adherence(df, today) ==
  IF "Medication" \notin Columns THEN NoMed("not_tracked")
  ELSE LET med_df == SelectSeq(df, LAMBDA r : InMedWindow(r.Date, today))
       IN IF med_df = <<>> THEN NoMed("no_recent")
          ELSE LET total_days == Len(med_df)
                   days_taken == CountMed(med_df, "Yes")
                   taken == SelectSeq(med_df, LAMBDA r : r.Medication = "Yes")
                   missed == SelectSeq(med_df, LAMBDA r : r.Medication = "No")
                   both == Len(taken) > 0 /\ Len(missed) > 0
               IN [status |-> "shown",
                   total_days |-> total_days,
                   days_taken |-> days_taken,
                   missed_days |-> MissedDays(total_days, days_taken),
                   adherence_rate |->
                     IF total_days > 0
                     THEN [sum |-> days_taken * 100, count |-> total_days]
                     ELSE [sum |-> 0, count |-> 1],
                   window_idx |-> Idx(med_df),
                   corr |-> both,
                   avg_score_taken |-> IF both THEN Mean(Scores(taken)) ELSE NaN,
                   avg_score_missed |-> IF both THEN Mean(Scores(missed)) ELSE NaN,
                   score_diff |->
                     IF both THEN ScoreDiff(Mean(Scores(missed)), Mean(Scores(taken)))
                     ELSE F64Sub(NaN, NaN)]

----------------------------------------------------------------------------
(* One run of the script main(): what it shows *)

NoSel == [recent_7 |-> {}, prev_7 |-> {}, recent_5 |-> {}]

BlankView(page, today, tab2) ==
  [page |-> page, today |-> today, metric |-> NoMetric, tab2 |-> tab2,
   insights |-> <<>>, sel |-> NoSel, tag_stats |-> <<>>,
   med |-> NoMed("none")]

LoginView == BlankView("login", 0, "none")

(* The rows the rules picked (kept beside what is shown, to state the
   claims about them). *)
Selection(df, top14) ==
  [recent_7 |-> IF Len(df) >= TrendMinRecords THEN Idx(Recent7(df)) ELSE {},
   prev_7 |-> IF Len(df) >= TrendMinRecords THEN Idx(Prev7(top14)) ELSE {},
   recent_5 |-> IF TooFew(df) THEN {} ELSE Idx(Recent5(df))]

Top14s(df) == IF Len(df) >= TrendMinRecords THEN nlargest(df, TrendMinRecords) ELSE {<<>>}

UserView(df, today) ==
  IF df = <<>>
  THEN {BlankView("app", today, "no_data")}
  ELSE {[page |-> "app", today |-> today,
         metric |-> InstantStats(df, today),
         tab2 |-> "shown",
         insights |-> get_pattern_insights(df, ts, top14),
         sel |-> Selection(df, top14),
         tag_stats |-> ts,
         med |-> Adherence(df, today)] :
          ts \in get_tag_correlations(df), top14 \in Top14s(df)}

(* The views a run of the script can end with: session is the session's
   user_email (NoSession when the key is absent), raw what
   sheet.get_all_records() returns, today what datetime.now() returns. *)
RunScript(raw, user_email, today) ==
  IF user_email = NoSession THEN {LoginView}
  ELSE IF raw = <<>> THEN {BlankView("app", today, "empty_db")}
  ELSE UNION {UserView(df, today) : df \in analyze_user_data(raw, user_email)}

----------------------------------------------------------------------------
(* The operations of the app *)

(* The five answers that give a total score s (each answer is 0..4). *)
AnswersFor(s) ==
  [i \in 1..5 |-> LET left == s - 4 * (i - 1)
                  IN IF left >= 4 THEN 4 ELSE IF left > 0 THEN left ELSE 0]

(* The OAuth return: the session gets the e-mail Google reports (None when
   the reply holds none), and the script runs again. *)
Login(email) ==
  /\ session = NoSession
  /\ session' = email
  /\ view' \in RunScript(sheet, email, now)
  /\ UNCHANGED <<sheet, now>>

Logout ==
  /\ session # NoSession
  /\ session' = NoSession
  /\ view' = LoginView
  /\ UNCHANGED <<sheet, now>>

NewRow(user_email, date_val, q, tags, med_taken) ==
  [User_Email |-> user_email, Date |-> date_val, Score |-> SumSeq(q),
   Tags |-> Join(tags), Medication |-> IF med_taken THEN "Yes" ELSE "No"]

(* A mutant: the entry is saved whatever the session's e-mail. *)
SaveEntryUnchecked(date_val, q, tags, med_taken) ==
  /\ session # NoSession
  /\ sheet' = Append(sheet, NewRow(session, date_val, q, tags, med_taken))
  /\ view' \in RunScript(sheet', session, now)
  /\ UNCHANGED <<session, now>>

(* The Save Entry button: without an e-mail the entry is refused and the
   run goes on; otherwise the row is appended and the script runs again. *)
SaveEntry(date_val, q, tags, med_taken) ==
  /\ session # NoSession
  /\ IF session = NoneEmail
     THEN sheet' = sheet
     ELSE sheet' = Append(sheet, NewRow(session, date_val, q, tags, med_taken))
  /\ view' \in RunScript(sheet', session, now)
  /\ UNCHANGED <<session, now>>

(* Any other interaction: the script runs again. *)
Rerun ==
  /\ view' \in RunScript(sheet, session, now)
  /\ UNCHANGED <<sheet, session, now>>

(* Time passes: ticks more of it, up to the instant limit. *)
Advance(ticks, limit) ==
  /\ now + ticks <= limit
  /\ now' = now + ticks
  /\ UNCHANGED <<sheet, session, view>>

Tick == Advance(1, to_datetime(StartDay) + MaxTicks)
NextDay(days) == Advance(TicksPerDay, to_datetime(StartDay + days))

----------------------------------------------------------------------------
(* Specifications *)

Today == now \div TicksPerDay
Me == "ann@x"
Other == "bob@x"

(* A row another user saved earlier. *)
OtherRow == NewRow(Other, StartDay, AnswersFor(20), <<"work_stress">>, FALSE)

InitWith(sheets) ==
  /\ sheet \in sheets
  /\ session = NoSession
  /\ now = to_datetime(StartDay)
  /\ view = LoginView

(* The weekly comparison: entries dated around the two windows' ends. *)
WeeklyAges == {0 - 1, 0, 7, 14}
WeeklyScores == {3, 10}

InitWeekly == InitWith({<<>>, <<OtherRow>>})

NextWeekly ==
  \/ Login(Me)
  \/ Logout
  \/ \E a \in WeeklyAges, s \in WeeklyScores :
       /\ Len(sheet) < MaxRows
       /\ SaveEntry(Today - a, AnswersFor(s), <<>>, TRUE)
  \/ Rerun
  \/ Tick

SpecWeekly == InitWeekly /\ [][NextWeekly]_vars

(* The user has not saved an entry dated today yet. *)
NoEntryToday ==
  \A i \in 1..Len(sheet) :
    sheet[i].User_Email = session => sheet[i].Date # Today

(* Tag correlation: one entry a day, with zero, one or two labels. *)
TagLists == {<<>>, <<"exercise">>, <<"work_stress">>,
             <<"exercise", "relax">>, <<"relax", "exercise">>,
             <<"work_stress", "exercise">>}
TagScores == {4, 8}

InitTags == InitWith({<<>>, <<OtherRow>>})

NextTags ==
  \/ Login(Me)
  \/ \E tags \in TagLists, s \in TagScores :
       /\ Len(sheet) < MaxRows
       /\ NoEntryToday
       /\ SaveEntry(Today, AnswersFor(s), tags, TRUE)
  \/ Rerun
  \/ NextDay(MaxRows - 1)

SpecTags == InitTags /\ [][NextTags]_vars

EntriesToday ==
  Cardinality({i \in 1..Len(sheet) :
                 sheet[i].User_Email = session /\ sheet[i].Date = Today})

(* Entries the user saved earlier: one a day from day first on, with the
   given scores, all with the same tags. *)
History(first, scores, tags) ==
  [i \in 1..Len(scores) |->
     NewRow(Me, first + i - 1, AnswersFor(scores[i]), tags, TRUE)]

(* The record threshold and the warning: up to MinRecords entries dated
   today, at most MaxPerDay of them a day, as InsightDays days pass. *)
MaxPerDay == 2
InsightDays == MinDayGroups
InsightScores == {7, 12}

InitInsights == InitWith({<<>>})

NextInsights ==
  \/ Login(Me)
  \/ \E s \in InsightScores :
       /\ Len(sheet) < MinRecords
       /\ EntriesToday < MaxPerDay
       /\ SaveEntry(Today, AnswersFor(s), <<>>, TRUE)
  \/ NextDay(InsightDays)

SpecInsights == InitInsights /\ [][NextInsights]_vars

(* The day-of-week rule: two Monday entries are there, further entries are
   dated today as Monday, Tuesday and Wednesday pass. *)
DayScores == {1, 7, 12}
DaysBase == <<NewRow(Me, StartDay, AnswersFor(12), <<>>, TRUE),
              NewRow(Me, StartDay, AnswersFor(7), <<>>, TRUE)>>

InitDays == InitWith({DaysBase})

NextDays ==
  \/ Login(Me)
  \/ \E s \in DayScores :
       /\ Len(sheet) < MinRecords
       /\ EntriesToday < MinDayGroups
       /\ SaveEntry(Today, AnswersFor(s), <<>>, TRUE)
  \/ NextDay(MinDayGroups - 1)

SpecDays == InitDays /\ [][NextDays]_vars

(* The trend rule: TrendBase daily entries are there (scores 2, then 10),
   further entries are dated today or TrendBackdate days back. *)
TrendBase == 12
TrendExtra == 3
TrendBackdate == 6
TrendScores == {2, 10}
TrendHistory ==
  History(StartDay - TrendBase,
          [i \in 1..TrendBase |-> IF i <= TrendN THEN 2 ELSE 10], <<>>)

InitTrend == InitWith({TrendHistory})

NextTrend ==
  \/ Login(Me)
  \/ \E a \in {0, TrendBackdate}, s \in TrendScores :
       /\ Len(sheet) < TrendBase + TrendExtra
       /\ SaveEntry(Today - a, AnswersFor(s), <<>>, TRUE)

SpecTrend == InitTrend /\ [][NextTrend]_vars

(* The protective-tag rule: TagBase daily entries tagged "exercise" are
   there, further entries are dated today, one a day. *)
TagBase == 4
TagInsightChoices == {<<<<"exercise">>, 4>>, <<<<"relax">>, 4>>,
                      <<<<"relax">>, 8>>, <<<<"work_stress">>, 8>>, <<<<>>, 8>>}
TagHistory == History(StartDay - TagBase, [i \in 1..TagBase |-> 4], <<"exercise">>)

InitTagInsight == InitWith({TagHistory})

NextTagInsight ==
  \/ Login(Me)
  \/ \E c \in TagInsightChoices :
       /\ Len(sheet) < TagBase + MaxRows + 1
       /\ NoEntryToday
       /\ SaveEntry(Today, AnswersFor(c[2]), c[1], TRUE)
  \/ NextDay(MaxRows)

SpecTagInsight == InitTagInsight /\ [][NextTagInsight]_vars

(* Medication adherence: a recent entry from before the Medication column
   was added to the sheet may be there (its cell reads ''); entries are
   dated around the start of the 30-day window. *)
LegacyRow ==
  [User_Email |-> Me, Date |-> StartDay - 3, Score |-> 9, Tags |-> <<>>,
   Medication |-> ""]
MedAges == {0, 29, 30}
MedScores == {5, 9}

InitMed == InitWith({<<>>, <<LegacyRow>>})

NextMed ==
  \/ Login(Me)
  \/ Logout
  \/ \E a \in MedAges, s \in MedScores, med_taken \in BOOLEAN :
       /\ Len(sheet) < MaxRows
       /\ SaveEntry(Today - a, AnswersFor(s), <<>>, med_taken)
  \/ Rerun
  \/ Tick

SpecMed == InitMed /\ [][NextMed]_vars

(* Medication and mood: entries dated today or at the start of the 30-day
   window, with either answer to the medication question. *)
CorrAges == {0, 30}

InitCorr == InitWith({<<>>, <<LegacyRow>>})

NextCorr ==
  \/ Login(Me)
  \/ \E a \in CorrAges, s \in MedScores, med_taken \in BOOLEAN :
       /\ Len(sheet) < MaxRows
       /\ SaveEntry(Today - a, AnswersFor(s), <<>>, med_taken)
  \/ Tick

SpecCorr == InitCorr /\ [][NextCorr]_vars

(* Two users in one sheet: another user's row is there, the user saves
   entries dated today, at most MaxPerDay of them a day. *)
InitOwner == InitWith({<<OtherRow>>})

NextOwner ==
  \/ Login(Me)
  \/ \E s \in InsightScores :
       /\ Len(sheet) < MinRecords + 1
       /\ EntriesToday < MaxPerDay
       /\ SaveEntry(Today, AnswersFor(s), <<>>, TRUE)
  \/ NextDay(InsightDays)

SpecOwner == InitOwner /\ [][NextOwner]_vars

(* The whole app: either user, or a login whose reply holds no e-mail;
   entries dated today or yesterday with the lowest or the highest score. *)
AppAges == {0, 1}
AppScores == {0, MaxScore}

InitApp == InitWith({<<>>, <<OtherRow>>})

NextApp ==
  \/ \E email \in Users \cup {NoneEmail} : Login(email)
  \/ Logout
  \/ \E a \in AppAges, s \in AppScores :
       /\ Len(sheet) < MaxRows
       /\ SaveEntry(Today - a, AnswersFor(s), <<>>, TRUE)
  \/ Rerun
  \/ Tick

SpecApp == InitApp /\ [][NextApp]_vars

----------------------------------------------------------------------------
(* Claims *)

Shown == view.page = "app" /\ view.tab2 = "shown"
Mine(i) == sheet[i].User_Email = session

(* C1: the weekly comparison puts a record in the current window iff
   now-7d < date <= now and in the prior window iff now-14d < date <= now-7d;
   the windows are disjoint, a record dated exactly now-7d is in the prior
   window only, and a record dated at or before now-14d or after now is in
   neither. *)
C1_Windows ==
  Shown =>
    /\ \A i \in 1..Len(sheet) :
         LET date == sheet[i].Date * TicksPerDay
             t == view.today
         IN /\ i \in view.metric.curr_idx <=>
                 (Mine(i) /\ t - 7 * TicksPerDay < date /\ date <= t)
            /\ i \in view.metric.last_idx <=>
                 (Mine(i) /\ t - 14 * TicksPerDay < date /\ date <= t - 7 * TicksPerDay)
            /\ (Mine(i) /\ date = t - 7 * TicksPerDay) =>
                 (i \in view.metric.last_idx /\ i \notin view.metric.curr_idx)
            /\ (date <= t - 14 * TicksPerDay \/ date > t) =>
                 (i \notin view.metric.last_idx /\ i \notin view.metric.curr_idx)
    /\ view.metric.curr_idx \cap view.metric.last_idx = {}

(* A run that showed a record dated exactly now-7d, one dated exactly
   now-14d, one after now and one inside the current window. *)
C1_Witness ==
  /\ Shown
  /\ \E i, j, k \in 1..Len(sheet) :
       /\ Mine(i) /\ sheet[i].Date * TicksPerDay = view.today - 7 * TicksPerDay
       /\ i \in view.metric.last_idx
       /\ Mine(j) /\ j \in view.metric.curr_idx
       /\ Mine(k) /\ (sheet[k].Date * TicksPerDay > view.today
                      \/ sheet[k].Date * TicksPerDay = view.today - 14 * TicksPerDay)

(* C2: a window without records has an undefined average, and the delta is
   computed and the Week Avg metric shown only when both averages are
   defined. *)
C2_UndefinedNotShown ==
  /\ Shown /\ view.metric.curr_idx = {} => IsNaN(view.metric.curr) \/ ~view.metric.shown
  /\ view.metric.shown =>
       /\ view.metric.curr_idx # {}
       /\ view.metric.last_idx # {}
       /\ ~IsNaN(view.metric.curr) /\ ~IsNaN(view.metric.last)
       /\ ~view.metric.delta.nan

MineRows == {i \in 1..Len(sheet) : Mine(i)}
TaggedMine == {i \in MineRows : sheet[i].Tags # <<>>}
NumLabels(cell) == 1 + Cardinality({i \in 1..Len(cell) : cell[i] = SEP})
HasInsight(type) == \E k \in 1..Len(view.insights) : view.insights[k].type = type

(* C3: the counts of the tag correlation add up to the sum of the lengths of
   the tag lists of the tagged records, each tag of a record carries the
   record's whole score, and without tagged records the result is empty. *)
C3_CountSum ==
  Shown =>
    /\ SumSeq([k \in 1..Len(view.tag_stats) |-> view.tag_stats[k].count])
         = SumSeq([i \in 1..Len(sheet) |->
                     IF i \in TaggedMine THEN NumLabels(sheet[i].Tags) ELSE 0])
    /\ SumSeq([k \in 1..Len(view.tag_stats) |-> view.tag_stats[k].mean.sum])
         = SumSeq([i \in 1..Len(sheet) |->
                     IF i \in TaggedMine
                     THEN sheet[i].Score * NumLabels(sheet[i].Tags) ELSE 0])
    /\ TaggedMine = {} => view.tag_stats = <<>>

(* A correlation over a two-tag record, a one-tag record and an untagged
   one. *)
C3_Witness ==
  /\ Shown
  /\ \E i, j, k \in MineRows :
       /\ NumLabels(sheet[i].Tags) = 2
       /\ sheet[j].Tags = <<>>
       /\ Len(sheet[k].Tags) = 1
  /\ Len(view.tag_stats) >= 2

(* C4: the tag correlation is sorted by mean score, descending, and tags of
   equal mean come in the tags' natural order (so the order is fixed by the
   (tag, score) pairs alone). *)
C4_SortedTiesNatural ==
  Shown =>
    \A i, j \in 1..Len(view.tag_stats) :
      i < j =>
        /\ ~MeanLT(view.tag_stats[i].mean, view.tag_stats[j].mean)
        /\ MeanEQ(view.tag_stats[i].mean, view.tag_stats[j].mean) =>
             PieceRank(view.tag_stats[i].Tags) < PieceRank(view.tag_stats[j].Tags)

(* The sum of the scores of a set of sheet rows. *)
ScoreSum(S) == SumSeq([i \in 1..Len(sheet) |-> IF i \in S THEN sheet[i].Score ELSE 0])

(* S holds n of the user's records, and no record outside it is dated later
   than one inside it. *)
MostRecent(S, n) ==
  /\ S \subseteq MineRows
  /\ Cardinality(S) = n
  /\ \A i \in S, j \in MineRows \ S : sheet[j].Date <= sheet[i].Date

Insight(type) ==
  view.insights[CHOOSE k \in 1..Len(view.insights) : view.insights[k].type = type]

(* C5 as stated: the warning is emitted iff the mean score of the 5 most
   recent records is >= 15; never with fewer than 5 records. *)
C5_WarnIff15 ==
  Shown =>
    /\ HasInsight("warning") =>
         \E S \in SUBSET MineRows : MostRecent(S, 5) /\ ScoreSum(S) >= 15 * 5
    /\ (\E S \in SUBSET MineRows : MostRecent(S, 5)) /\
       (\A S \in SUBSET MineRows : MostRecent(S, 5) => ScoreSum(S) >= 15 * 5)
         => HasInsight("warning")

(* C5 amended: the warning is emitted iff there are at least 7 records and
   the mean score of the 5 most recent records is >= 12 (of records of equal
   date at the cut, the ones the rule picked); it carries that mean. *)
C5_WarnIff12 ==
  Shown =>
    /\ Cardinality(MineRows) < 7 => ~HasInsight("warning")
    /\ Cardinality(MineRows) >= 7 =>
         /\ MostRecent(view.sel.recent_5, 5)
         /\ HasInsight("warning") <=> ScoreSum(view.sel.recent_5) >= 12 * 5
         /\ HasInsight("warning") =>
              /\ Insight("warning").mean.sum = ScoreSum(view.sel.recent_5)
              /\ Insight("warning").mean.count = 5

(* A warning shown over seven records of which an older one has a lower
   score. *)
C5_Witness ==
  /\ Shown
  /\ HasInsight("warning")
  /\ \E i \in MineRows \ view.sel.recent_5 : sheet[i].Score < 12

(* C6: with at least 14 records the trend rule compares the 7 most recent
   records with the 7 before them (two disjoint groups that together are the
   14 most recent records, also when dates repeat); a trend is emitted iff
   the two means differ by 2 or more, rising when the recent mean is the
   larger and improving when it is the smaller; never with fewer than 14
   records. *)
C6_TrendGroups ==
  Shown =>
    /\ Cardinality(MineRows) < 14 => ~HasInsight("trend")
    /\ Cardinality(MineRows) >= 14 =>
         LET r == view.sel.recent_7
             q == view.sel.prev_7
             d == ScoreSum(r) - ScoreSum(q)
         IN /\ MostRecent(r, 7)
            /\ r \cap q = {}
            /\ MostRecent(r \cup q, 14)
            /\ HasInsight("trend") <=> (d >= 2 * 7 \/ 0 - d >= 2 * 7)
            /\ HasInsight("trend") =>
                 Insight("trend").dir = IF d > 0 THEN "rising" ELSE "improving"

(* C7: with fewer than 7 records (none included) no insight is produced. *)
C7_FewNoInsights ==
  view.page = "app" /\ Cardinality(MineRows) < 7 => view.insights = <<>>

(* Six records shown, the last five all at a score that warrants the
   warning and two weekdays two points apart. *)
C7_Witness ==
  /\ Shown
  /\ Cardinality(MineRows) = 6
  /\ \E S \in SUBSET MineRows : MostRecent(S, 5) /\ ScoreSum(S) >= 12 * 5
  /\ view.insights = <<>>

(* The user's records that fall on a weekday, and the weekdays on record. *)
OnDay(d) == {i \in MineRows : day_name(sheet[i].Date * TicksPerDay) = d}

DaysOnRecord == {d \in Range(DayNames) : OnDay(d) # {}}

(* The mean score of weekday a exceeds that of weekday b by k or more,
   in exact arithmetic. *)
DayGap(a, b, k) ==
  ScoreSum(OnDay(a)) * Cardinality(OnDay(b)) - ScoreSum(OnDay(b)) * Cardinality(OnDay(a))
    >= k * Cardinality(OnDay(a)) * Cardinality(OnDay(b))

(* C8: a day_pattern insight is emitted iff there are at least 7 records,
   on at least 3 distinct weekdays, and the largest weekday mean exceeds the
   smallest by 2 or more; it names a weekday of largest mean as worst and
   one of smallest mean as best. *)
C8_DayPatternIff ==
  Shown =>
    /\ HasInsight("day_pattern") <=>
         /\ Cardinality(MineRows) >= 7
         /\ Cardinality(DaysOnRecord) >= 3
         /\ \E a, b \in DaysOnRecord : DayGap(a, b, 2)
    /\ HasInsight("day_pattern") =>
         /\ Insight("day_pattern").worst \in DaysOnRecord
         /\ Insight("day_pattern").best \in DaysOnRecord
         /\ \A d \in DaysOnRecord :
              /\ DayGap(Insight("day_pattern").worst, d, 0)
              /\ DayGap(d, Insight("day_pattern").best, 0)

(* The user's records that carry a tag, and the protective tags on record. *)
WithTag(t) == {i \in MineRows : \E k \in 1..Len(sheet[i].Tags) : sheet[i].Tags[k] = t}

Protective == {t \in positive_tags : WithTag(t) # {}}

(* No protective tag on record has a lower mean score than t. *)
LowestMean(t) ==
  \A u \in Protective :
    ScoreSum(WithTag(t)) * Cardinality(WithTag(u))
      <= ScoreSum(WithTag(u)) * Cardinality(WithTag(t))

(* C9: with at least 7 records, a tag_insight is emitted iff the protective
   tag of lowest mean score has at least 3 occurrences, whatever other tags
   are on record; the insight names that tag with its count and mean. *)
C9_TagInsightIff ==
  Shown /\ Cardinality(MineRows) >= 7 =>
    /\ HasInsight("tag_insight") =>
         \E t \in Protective :
           /\ LowestMean(t)
           /\ Cardinality(WithTag(t)) >= 3
           /\ Insight("tag_insight").tag = t
           /\ Insight("tag_insight").count = Cardinality(WithTag(t))
           /\ Insight("tag_insight").mean.sum = ScoreSum(WithTag(t))
    /\ (Protective # {} /\
        \A t \in Protective : LowestMean(t) => Cardinality(WithTag(t)) >= 3)
         => HasInsight("tag_insight")

(* The user's records dated within the last 30 days, and those of them with
   a given answer to the medication question. *)
MedWindow ==
  {i \in MineRows : sheet[i].Date * TicksPerDay > view.today - 30 * TicksPerDay}

MedAnswered(a) == {i \in MedWindow : sheet[i].Medication = a}

(* C10: the adherence figures are computed over the user's records dated
   after now - 30 days; taken counts the records answered Yes, missed counts
   the records answered No (a record with no answer is not missed), the rate
   is taken / total and lies between 0 and 1, and no rate is reported when
   the window is empty. *)
C10_Adherence ==
  Shown =>
    /\ view.med.status = "shown" <=> MedWindow # {}
    /\ view.med.status = "shown" =>
         /\ view.med.window_idx = MedWindow
         /\ view.med.total_days = Cardinality(MedWindow)
         /\ view.med.days_taken = Cardinality(MedAnswered("Yes"))
         /\ view.med.missed_days = Cardinality(MedAnswered("No"))
         /\ view.med.adherence_rate.sum = 100 * view.med.days_taken
         /\ view.med.adherence_rate.count = view.med.total_days
         /\ view.med.adherence_rate.sum >= 0
         /\ view.med.adherence_rate.sum <= 100 * view.med.adherence_rate.count

(* The mean score of a set of sheet rows. *)
ScoreMean(S) == [sum |-> ScoreSum(S), count |-> Cardinality(S)]

(* C11: within the 30-day window the medication score difference is
   computed iff there are both records answered Yes and records answered
   No; it is then the mean score of the No records minus the mean score of
   the Yes records, in that order; otherwise neither the two means nor the
   difference are produced. *)
C11_ScoreDiff ==
  Shown =>
    /\ view.med.corr <=> (MedAnswered("Yes") # {} /\ MedAnswered("No") # {})
    /\ view.med.corr =>
         /\ view.med.status = "shown"
         /\ view.med.avg_score_taken = ScoreMean(MedAnswered("Yes"))
         /\ view.med.avg_score_missed = ScoreMean(MedAnswered("No"))
         /\ ~view.med.score_diff.nan
         /\ view.med.score_diff.minuend = ScoreMean(MedAnswered("No"))
         /\ view.med.score_diff.subtrahend = ScoreMean(MedAnswered("Yes"))
    /\ ~view.med.corr =>
         /\ IsNaN(view.med.avg_score_taken)
         /\ IsNaN(view.med.avg_score_missed)
         /\ view.med.score_diff.nan

(* A difference shown for a window with both answers and different means,
   while a record of the user lies outside the window. *)
C11_Witness ==
  /\ Shown
  /\ view.med.corr
  /\ view.med.avg_score_taken # view.med.avg_score_missed
  /\ MineRows \ MedWindow # {}

(* What a view shows of the analytics, without the record of which sheet
   rows went into it. *)
Results(v) ==
  [metric |-> [shown |-> v.metric.shown, curr |-> v.metric.curr,
               last |-> v.metric.last, delta |-> v.metric.delta],
   tag_stats |-> v.tag_stats,
   insights |-> v.insights,
   med |-> [v.med EXCEPT !.window_idx = {}]]

(* Sheets that differ from raw only in rows of other users (none of them,
   or one more at either end), or only in the order of two neighbouring
   rows. *)
OtherUsersVariants(raw) ==
  {SelectSeq(raw, LAMBDA r : r.User_Email = session),
   Append(raw, OtherRow), <<OtherRow>> \o raw}

RowOrderVariants(raw) ==
  {[raw EXCEPT ![k] = raw[k + 1], ![k + 1] = raw[k]] : k \in 1..(Len(raw) - 1)}

(* C12: what the logged-in user is shown is computed from the user's own
   records only, in date order with records of one date in insertion order:
   a sheet that differs only in rows of other users, or only in the order
   of its rows, gives the same results. *)
C12_OwnRowsOrderFree ==
  Shown =>
    \A raw \in OtherUsersVariants(sheet) \cup RowOrderVariants(sheet) :
      \A v \in RunScript(raw, session, view.today) :
        Results(v) = Results(view)

(* C13: the sheet only grows. A step either leaves the sheet as it is, or
   appends one row to it, with the rows before unchanged and in place; the
   row's owner is the e-mail of the session, which is one of a logged-in
   user and not empty, and its score is in 0..20. So nothing is appended
   without a session or with an empty e-mail, and running the analytics
   does not change the sheet. *)
C13_AppendOnly ==
  [][\/ sheet' = sheet
     \/ /\ Len(sheet') = Len(sheet) + 1
        /\ SubSeq(sheet', 1, Len(sheet)) = sheet
        /\ session \notin {NoSession, NoneEmail}
        /\ session' = session
        /\ sheet'[Len(sheet')].User_Email = session
        /\ sheet'[Len(sheet')].Score \in 0..MaxScore]_vars

(* Two entries of one user for one date are both in the sheet, after a row
   of another user, while the session in progress has no e-mail. *)
C13_Witness ==
  /\ session = NoneEmail
  /\ view.page = "app"
  /\ \E i, j \in 1..Len(sheet) :
       /\ i < j
       /\ sheet[i].User_Email = Me /\ sheet[j].User_Email = Me
       /\ sheet[i].Date = sheet[j].Date
  /\ \E i \in 1..Len(sheet) : sheet[i].User_Email = Other

====
